---- MODULE Spec2Model ----
(***************************************************************************)
(* stream-axios: the streaming session of createStreamRequest and the SSE  *)
(* helpers parseSSEEvent / parseSSEChunk / createSSEParser                 *)
(* (src/src/core/axiosInstance.js).                                        *)
(*                                                                         *)
(* Spec    : one stream() call, its transport, its read loop, the cancel   *)
(*           handle and the external AbortSignal.                          *)
(* LiveSpec: the same session when nobody cancels, with the fairness of    *)
(*           the JavaScript job queue and of a transport that settles.     *)
(* SSESpec : an SSE text cut into chunks and fed to a createSSEParser      *)
(*           parser.                                                       *)
(* ParseSpec: one event block handed to parseSSEEvent and the emit loop.   *)
(* ExtractSpec: an SSE text handed whole to parseSSEChunk and, in chunks,  *)
(*           to a createSSEParser parser.                                  *)
(***************************************************************************)
EXTENDS Integers, Sequences, FiniteSets, TLC

\* ---------------------------------------------------------------- bounds
MaxChunks == 2      \* chunks the body stream delivers before it must end
MaxCancels == 2     \* invocations of the returned cancel handle
MaxRetry == 2       \* largest options.retry the caller passes

\* ------------------------------------------------- bytes and the decoder
\* The body delivers bytes; the model keeps three of them: an ASCII letter
\* and the two bytes of a two-byte UTF-8 character.
AsciiByte == 97
LeadByte == 195
ContByte == 169
TwoByteChar == 233
Replacement == 65533

ChunkValues == { <<AsciiByte>>, <<LeadByte>>, <<ContByte>>, <<LeadByte, ContByte>> }

\* new TextDecoder("utf-8") ... decoder.decode(value, { stream: true }):
\* a lead byte at the end of a chunk is held over to the next call.
RECURSIVE decode(_, _, _)
decode(pending, bytes, out) ==
    IF bytes = <<>> THEN [text |-> out, pending |-> pending]
    ELSE LET b == Head(bytes) IN
         IF pending
         THEN IF b = ContByte
              THEN decode(FALSE, Tail(bytes), Append(out, TwoByteChar))
              ELSE decode(FALSE, bytes, Append(out, Replacement))
         ELSE IF b = LeadByte THEN decode(TRUE, Tail(bytes), out)
         ELSE IF b = ContByte THEN decode(FALSE, Tail(bytes), Append(out, Replacement))
         ELSE decode(FALSE, Tail(bytes), Append(out, b))

\* ------------------------------------------------------------------ state
VARIABLES
    pc,                    \* position of the async stream function
    retry,                 \* options.retry
    signalGiven,           \* options.signal is present
    signalAborted,         \* options.signal.aborted
    externalSignalHandler, \* the abort listener is registered on options.signal
    controllerAborted,     \* controller.signal.aborted
    reader,                \* "null" | "locked" | "released"
    issueResult,           \* how the awaited instance(...) promise settled
    readState,             \* state of the reader.read() promise being awaited
    readValue,             \* bytes of the chunk that promise resolved with
    decoderPending,        \* the TextDecoder holds a lead byte
    handleReturned,        \* the promise of stream() resolved to cancelRequest
    log,                   \* callbacks invoked so far, in order
    delivered,             \* chunks the body stream has handed to read()
    issued,                \* number of times instance(...) was called
    failures,              \* number of issuances that failed (not cancelled)
    cancels,               \* invocations of cancelRequest
    releases,              \* releaseLock() calls that released a held reader
    ended,                 \* the body stream has reported end-of-stream
    promiseState,          \* the promise of stream(): "pending" | "resolved" | "rejected"
    requests,              \* the configs instance(...) was called with, in order
    abortedAtCall,         \* options.signal was already aborted at the call
    response,              \* what the awaited instance(...) resolved with
    options,               \* the request options the caller passed
    thrown,                \* what an onChunk callback threw, "none" if none did
    sseText,               \* SSESpec: the text that arrives
    ssePos,                \* SSESpec: how much of it has been fed
    buffer,                \* SSESpec: the parser's buffer
    emitted,               \* SSESpec: events handed to onMessage, in order
    splitMidFrame,         \* SSESpec: a chunk ended inside a frame
    extracted,             \* ExtractSpec: what each parseSSEChunk call passed on
    block,                 \* ParseSpec: the event block handed to the parser
    blockParsed,           \* ParseSpec: << parseSSEEvent(block) >> once parsed
    blockEmitted           \* ParseSpec: what the emit loop hands on for block

sessionVars == << pc, retry, signalGiven, signalAborted, externalSignalHandler,
                  controllerAborted, reader, issueResult, readState, readValue,
                  decoderPending, handleReturned, log, delivered, issued,
                  failures, cancels, releases, ended, promiseState, requests,
                  abortedAtCall, response, options, thrown >>
auxVars == << promiseState, requests, abortedAtCall, response, options, thrown >>
sseVars == << sseText, ssePos, buffer, emitted, splitMidFrame, extracted >>
parseVars == << block, blockParsed, blockEmitted >>
vars == << sessionVars, sseVars, parseVars >>

\* ------------------------------------------------------ callback records
ChunkCall(text) == [cb |-> "onChunk", text |-> text, err |-> ""]
CompleteCall == [cb |-> "onComplete", text |-> <<>>, err |-> ""]
ErrorCall(e) == [cb |-> "onError", text |-> <<>>, err |-> e]

Count(cbName) == Cardinality({i \in 1..Len(log) : log[i].cb = cbName})

\* ------------------------------------------------------------ the session
\* A response as the stream function probes it: each of response.data,
\* response.body and the response itself is a stream (offers getReader), some
\* other truthy value ("plain"), or missing ("none").
NoResponse == [data |-> "none", body |-> "none", self |-> "plain"]
Responses == [data : {"stream", "plain", "none"},
              body : {"stream", "plain", "none"},
              self : {"stream", "plain"}]

SessionInit ==
    /\ pc = "idle"
    /\ retry = 0
    /\ signalGiven = FALSE
    /\ signalAborted = FALSE
    /\ externalSignalHandler = FALSE
    /\ controllerAborted = FALSE
    /\ reader = "null"
    /\ issueResult = "none"
    /\ readState = "none"
    /\ readValue = <<>>
    /\ decoderPending = FALSE
    /\ handleReturned = FALSE
    /\ log = <<>>
    /\ delivered = <<>>
    /\ issued = 0
    /\ failures = 0
    /\ cancels = 0
    /\ releases = 0
    /\ ended = FALSE
    /\ promiseState = "pending"
    /\ requests = <<>>
    /\ abortedAtCall = FALSE
    /\ response = NoResponse
    /\ options = << >>
    /\ thrown = "none"

SSEIdle ==
    /\ sseText = <<>>
    /\ ssePos = 0
    /\ buffer = <<>>
    /\ emitted = <<>>
    /\ splitMidFrame = FALSE
    /\ extracted = <<>>

ParseIdle ==
    /\ block = <<>>
    /\ blockParsed = <<>>
    /\ blockEmitted = <<>>

Init == SessionInit /\ SSEIdle /\ ParseIdle

\* controller.abort(): fires the internal token once; a read that is pending
\* on the response body is rejected with an AbortError.
AbortedRead(rs) == IF rs = "pending" THEN "rejected_abort" ELSE rs

\* reader.read() as called by readStreamChunk: a released reader rejects with
\* a TypeError, a body errored by the abort rejects with an AbortError.
StartRead(rd, aborted) ==
    IF rd = "released" THEN "rejected_type"
    ELSE IF aborted THEN "rejected_abort"
    ELSE "pending"

\* As wireSignal, but an already aborted signal gets a listener like any other.
wireSignal_ignoresAborted(sig, sigAborted) ==
    [aborted |-> FALSE, handler |-> sig]

\* The wiring of options.signal: an already aborted signal fires the internal
\* token at once, any other gets the abort listener.
wireSignal(sig, sigAborted) ==
    [aborted |-> (sig /\ sigAborted), handler |-> (sig /\ ~sigAborted)]

\* { ...a, ...b }: the keys of b override those of a.
spread(a, b) ==
    [k \in DOMAIN a \cup DOMAIN b |-> IF k \in DOMAIN b THEN b[k] ELSE a[k]]

\* What a caller passes besides callbacks: a url alone, or with a timeout, a
\* response type and an adapter of its own; a signal when it has one.
CallerOptions ==
    { [url |-> "/stream"],
      [url |-> "/stream", timeout |-> 5000, responseType |-> "json",
       adapter |-> "xhr"] }

callerOptions(o, sig) ==
    IF sig THEN spread(o, [signal |-> "options.signal"]) ELSE o

\* The fields the stream function sets itself; tokenFired is the state of
\* controller.signal when the request is issued.
forcedConfig(fired) ==
    [isStream |-> TRUE, adapter |-> "fetch", responseType |-> "stream",
     timeout |-> 0, signal |-> "controller.signal", tokenFired |-> fired]

\* As requestConfig, but the caller's options are spread last.
requestConfig_callerWins(opts, fired) == spread(forcedConfig(fired), opts)

\* The config instance(...) is called with: the caller's options, then the
\* forced fields.
requestConfig(opts, fired) == spread(opts, forcedConfig(fired))

\* As createStreamRequest, but the handle is given out when the request is
\* issued.
createStreamRequest_returnsAtIssue(sig, sigAborted, n, o) ==
    /\ pc = "idle"
    /\ retry' = n
    /\ signalGiven' = sig
    /\ signalAborted' = (sig /\ sigAborted)
    /\ controllerAborted' = wireSignal(sig, sigAborted).aborted
    /\ externalSignalHandler' = wireSignal(sig, sigAborted).handler
    /\ abortedAtCall' = (sig /\ sigAborted)
    /\ options' = callerOptions(o, sig)
    /\ requests' = Append(requests,
                          requestConfig(callerOptions(o, sig),
                                        wireSignal(sig, sigAborted).aborted))
    /\ issued' = issued + 1
    /\ pc' = "await_instance"
    /\ UNCHANGED << promiseState, response, thrown >>
    /\ handleReturned' = TRUE
    /\ UNCHANGED << reader, issueResult, readState, readValue, decoderPending,
                    log, delivered, failures, cancels, releases, ended >>

\* stream(options, ...) up to its first await: the wiring of the external
\* signal and the issue of the request.
createStreamRequest(sig, sigAborted, n, o) ==
    /\ pc = "idle"
    /\ retry' = n
    /\ signalGiven' = sig
    /\ signalAborted' = (sig /\ sigAborted)
    /\ controllerAborted' = wireSignal(sig, sigAborted).aborted
    /\ externalSignalHandler' = wireSignal(sig, sigAborted).handler
    /\ abortedAtCall' = (sig /\ sigAborted)
    /\ options' = callerOptions(o, sig)
    /\ requests' = Append(requests,
                          requestConfig(callerOptions(o, sig),
                                        wireSignal(sig, sigAborted).aborted))
    /\ issued' = issued + 1
    /\ pc' = "await_instance"
    /\ UNCHANGED << promiseState, response, thrown >>
    /\ UNCHANGED << reader, issueResult, readState, readValue, decoderPending,
                    handleReturned, log, delivered, failures, cancels, releases,
                    ended >>

\* The transport settles the awaited request: a fired token makes axios reject
\* with a CanceledError; otherwise it answers with some response, or fails.
IssueSettles(outcome, resp) ==
    /\ pc = "await_instance"
    /\ issueResult = "none"
    /\ IF controllerAborted THEN outcome = "canceled"
       ELSE outcome \in {"response", "failed"}
    /\ IF outcome = "response" THEN resp \in Responses ELSE resp = NoResponse
    /\ issueResult' = outcome
    /\ response' = resp
    /\ UNCHANGED << promiseState, requests, abortedAtCall, options, thrown >>
    /\ failures' = IF outcome = "failed" THEN failures + 1 ELSE failures
    /\ UNCHANGED << pc, retry, signalGiven, signalAborted, externalSignalHandler,
                    controllerAborted, reader, readState, readValue,
                    decoderPending, handleReturned, log, delivered, issued,
                    cancels, releases, ended >>

\* As issueCatch, but a response without a readable body is dropped too.
issueCatch_swallowsUnsupported(lg, result) ==
    IF result \in {"canceled", "unsupported"} THEN lg
    ELSE Append(lg, ErrorCall(result))

\* The catch block of the stream function: a cancelled request is dropped
\* silently, any other failure goes to onError.
issueCatch(lg, result) ==
    IF result = "canceled" THEN lg ELSE Append(lg, ErrorCall(result))

\* response.data || response.body || (response.getReader ? response : null)
readableStream(r) ==
    IF r.data # "none" THEN r.data
    ELSE IF r.body # "none" THEN r.body
    ELSE IF r.self = "stream" THEN "stream"
    ELSE "none"

\* As isReadable, without the test for getReader.
isReadable_anyTruthy(rs) == rs # "none"

\* readableStream && typeof readableStream.getReader === "function"
isReadable(rs) == rs = "stream"

\* How the try block ends: the read loop is started, or the catch block gets
\* the failure ("unsupported" for the error thrown at the probe).
issueOutcome(result, r) ==
    IF result = "response"
    THEN IF isReadable(readableStream(r)) THEN "stream" ELSE "unsupported"
    ELSE result

\* As streamPromise, but a failing request is thrown on to the caller.
streamPromise_rethrows(outcome) ==
    IF outcome \in {"failed", "unsupported"} THEN "rejected" ELSE "resolved"

\* What the async function does to its promise: it returns cancelRequest at
\* the end of the try block and in and after the catch block.
streamPromise(outcome) == "resolved"

\* The rest of the async function after `await instance(...)`.
ResumeAfterIssue ==
    /\ pc = "await_instance"
    /\ issueResult # "none"
    /\ promiseState' = streamPromise(issueOutcome(issueResult, response))
    /\ handleReturned' = (promiseState' = "resolved")
    /\ IF issueOutcome(issueResult, response) = "stream"
       THEN /\ reader' = "locked"
            /\ readState' = StartRead("locked", controllerAborted)
            /\ pc' = "reading"
            /\ log' = log
       ELSE /\ pc' = "done"
            /\ log' = issueCatch(log, issueOutcome(issueResult, response))
            /\ UNCHANGED << reader, readState >>
    /\ UNCHANGED << requests, abortedAtCall, response, options, thrown >>
    /\ UNCHANGED << retry, signalGiven, signalAborted, externalSignalHandler,
                    controllerAborted, issueResult, readValue, decoderPending,
                    delivered, issued, failures, cancels, releases, ended >>

\* The body stream settles the pending reader.read().
ReadSettles(outcome, bytes) ==
    /\ pc = "reading"
    /\ readState = "pending"
    /\ \/ /\ outcome = "chunk"
          /\ Len(delivered) < MaxChunks
          /\ bytes \in ChunkValues
          /\ delivered' = Append(delivered, bytes)
          /\ readValue' = bytes
       \/ /\ outcome \in {"done", "rejected_error"}
          /\ bytes = <<>>
          /\ UNCHANGED << delivered, readValue >>
    /\ readState' = outcome
    /\ ended' = (ended \/ outcome = "done")
    /\ UNCHANGED auxVars
    /\ UNCHANGED << pc, retry, signalGiven, signalAborted, externalSignalHandler,
                    controllerAborted, reader, issueResult, decoderPending,
                    handleReturned, log, issued, failures, cancels, releases >>

\* As completeStream, without the call.
completeStream_silent(lg) == lg

\* if (onComplete) onComplete();
completeStream(lg) == Append(lg, CompleteCall)

\* As deliverChunk, but the newest chunk overtakes the earlier ones.
deliverChunk_reordered(lg, text) == << ChunkCall(text) >> \o lg

\* if (onChunk) onChunk(chunk);
deliverChunk(lg, text) == Append(lg, ChunkCall(text))

\* As readCatch, but every rejection is taken for an abort.
readCatch_silent(lg, rejection) == lg

\* err.name of what the try block of readStreamChunk can catch: a rejection
\* of reader.read(), or what onChunk threw.
errorName(caught) ==
    IF caught \in {"rejected_abort", "thrown_abort"} THEN "AbortError"
    ELSE IF caught = "rejected_type" THEN "TypeError"
    ELSE "Error"

\* The catch block of readStreamChunk: an AbortError ends the loop silently,
\* anything else caught goes to onError with its message.
readCatch(lg, caught) ==
    IF errorName(caught) = "AbortError" THEN lg ELSE Append(lg, ErrorCall(caught))

\* What a call of onChunk does: it returns, or it throws an error, which may
\* be one named AbortError (as signal.throwIfAborted() throws).
OnChunkOutcomes == { "returns", "thrown_error", "thrown_abort" }

\* readStreamChunk after `await reader.read()`; onChunk, when it is called,
\* ends as outcome says.
readStreamChunk(outcome) ==
    /\ pc = "reading"
    /\ readState \notin {"none", "pending"}
    /\ readState = "chunk" \/ outcome = "returns"
    /\ UNCHANGED << promiseState, requests, abortedAtCall, response, options >>
    /\ CASE readState = "done" ->
              /\ externalSignalHandler' = FALSE
              /\ log' = completeStream(log)
              /\ pc' = "done"
              /\ readState' = "none"
              /\ UNCHANGED << decoderPending, readValue, thrown >>
         [] readState = "chunk" /\ outcome = "returns" ->
              LET d == decode(decoderPending, readValue, <<>>) IN
              /\ decoderPending' = d.pending
              /\ log' = deliverChunk(log, d.text)
              /\ readState' = StartRead(reader, controllerAborted)
              /\ readValue' = <<>>
              /\ UNCHANGED << pc, externalSignalHandler, thrown >>
         [] readState = "chunk" /\ outcome # "returns" ->
              LET d == decode(decoderPending, readValue, <<>>) IN
              /\ decoderPending' = d.pending
              /\ thrown' = outcome
              /\ externalSignalHandler' = FALSE
              /\ log' = readCatch(deliverChunk(log, d.text), outcome)
              /\ pc' = "done"
              /\ readState' = "none"
              /\ readValue' = <<>>
         [] readState = "rejected_abort" ->
              /\ externalSignalHandler' = FALSE
              /\ pc' = "done"
              /\ readState' = "none"
              /\ UNCHANGED << log, decoderPending, readValue, thrown >>
         [] OTHER ->
              /\ externalSignalHandler' = FALSE
              /\ log' = readCatch(log, readState)
              /\ pc' = "done"
              /\ readState' = "none"
              /\ UNCHANGED << decoderPending, readValue, thrown >>
    /\ UNCHANGED << retry, signalGiven, signalAborted, controllerAborted, reader,
                    issueResult, handleReturned, delivered, issued, failures,
                    cancels, releases, ended >>

\* The caller invokes the handle it was given.
cancelRequest ==
    /\ handleReturned
    /\ cancels < MaxCancels
    /\ cancels' = cancels + 1
    /\ UNCHANGED auxVars
    /\ externalSignalHandler' = FALSE
    /\ controllerAborted' = TRUE
    /\ readState' = AbortedRead(readState)
    /\ reader' = IF reader = "null" THEN "null" ELSE "released"
    /\ releases' = IF reader = "locked" THEN releases + 1 ELSE releases
    /\ log' = Append(log, ErrorCall("manual"))
    /\ UNCHANGED << pc, retry, signalGiven, signalAborted, issueResult, readValue,
                    decoderPending, handleReturned, delivered, issued, failures,
                    ended >>

\* The owner of options.signal aborts it; the registered listener fires the
\* internal token.
ExternalAbort ==
    /\ pc # "idle"
    /\ signalGiven
    /\ ~signalAborted
    /\ signalAborted' = TRUE
    /\ UNCHANGED auxVars
    /\ IF externalSignalHandler
       THEN /\ controllerAborted' = TRUE
            /\ readState' = IF controllerAborted THEN readState
                            ELSE AbortedRead(readState)
       ELSE UNCHANGED << controllerAborted, readState >>
    /\ UNCHANGED << pc, retry, signalGiven, externalSignalHandler, reader,
                    issueResult, readValue, decoderPending, handleReturned, log, delivered,
                    issued, failures, cancels, releases, ended >>

Next ==
    \/ \E sig \in BOOLEAN, sa \in BOOLEAN, n \in 0..MaxRetry, o \in CallerOptions :
          createStreamRequest(sig, sa, n, o) /\ UNCHANGED << sseVars, parseVars >>
    \/ \E o \in {"response", "failed", "canceled"}, r \in Responses :
          IssueSettles(o, r) /\ UNCHANGED << sseVars, parseVars >>
    \/ ResumeAfterIssue /\ UNCHANGED << sseVars, parseVars >>
    \/ \E o \in {"chunk", "done", "rejected_error"}, b \in ChunkValues \cup {<<>>} :
          ReadSettles(o, b) /\ UNCHANGED << sseVars, parseVars >>
    \/ \E t \in OnChunkOutcomes :
          readStreamChunk(t) /\ UNCHANGED << sseVars, parseVars >>
    \/ cancelRequest /\ UNCHANGED << sseVars, parseVars >>
    \/ ExternalAbort /\ UNCHANGED << sseVars, parseVars >>

Spec == Init /\ [][Next]_vars

\* A session that nobody cancels: the handle is not invoked, the external
\* signal, if given, never fires, and the callbacks return.  The job queue
\* runs every continuation that is ready, and the transport settles every
\* request and every read.
LiveNext ==
    \/ \E sig \in BOOLEAN, n \in 0..MaxRetry, o \in CallerOptions :
          createStreamRequest(sig, FALSE, n, o) /\ UNCHANGED << sseVars, parseVars >>
    \/ \E o \in {"response", "failed"}, r \in Responses :
          IssueSettles(o, r) /\ UNCHANGED << sseVars, parseVars >>
    \/ ResumeAfterIssue /\ UNCHANGED << sseVars, parseVars >>
    \/ \E o \in {"chunk", "done", "rejected_error"}, b \in ChunkValues \cup {<<>>} :
          ReadSettles(o, b) /\ UNCHANGED << sseVars, parseVars >>
    \/ readStreamChunk("returns") /\ UNCHANGED << sseVars, parseVars >>

LiveSpec == Init /\ [][LiveNext]_vars /\ WF_vars(LiveNext)

\* ------------------------------------------------------------- SSE helpers
\* Texts are sequences of one-character strings.
NL == "\n"
Separator == << NL, NL >>
DataPrefix == << "d", "a", "t", "a", ":" >>
EventPrefix == << "e", "v", "e", "n", "t", ":" >>
IdPrefix == << "i", "d", ":" >>
RetryPrefix == << "r", "e", "t", "r", "y", ":" >>
Whitespace == { " ", NL, "\t", "\r" }
Digits == << "0", "1", "2", "3", "4", "5", "6", "7", "8", "9" >>

\* String.prototype.startsWith
startsWith(s, prefix) ==
    /\ Len(s) >= Len(prefix)
    /\ SubSeq(s, 1, Len(prefix)) = prefix

\* String.prototype.slice(n)
slice(s, n) == SubSeq(s, n + 1, Len(s))

\* String.prototype.split(sep) for a non-empty separator: the occurrences of
\* sep are taken from left to right and do not overlap.
RECURSIVE splitFrom(_, _, _, _)
splitFrom(s, sep, cur, acc) ==
    IF s = <<>> THEN Append(acc, cur)
    ELSE IF startsWith(s, sep)
         THEN splitFrom(slice(s, Len(sep)), sep, <<>>, Append(acc, cur))
         ELSE splitFrom(Tail(s), sep, Append(cur, Head(s)), acc)

split(s, sep) == splitFrom(s, sep, <<>>, <<>>)

\* String.prototype.trim
RECURSIVE trimStart(_)
trimStart(s) ==
    IF s # <<>> /\ Head(s) \in Whitespace THEN trimStart(Tail(s)) ELSE s

RECURSIVE trimEnd(_)
trimEnd(s) ==
    IF s # <<>> /\ s[Len(s)] \in Whitespace
    THEN trimEnd(SubSeq(s, 1, Len(s) - 1)) ELSE s

trim(s) == trimEnd(trimStart(s))

\* Array.prototype.join
RECURSIVE join(_, _)
join(parts, sep) ==
    IF parts = <<>> THEN <<>>
    ELSE IF Len(parts) = 1 THEN parts[1]
    ELSE parts[1] \o sep \o join(Tail(parts), sep)

\* parseInt(s, 10): optional sign, then the longest run of digits; NaN (the
\* empty tuple here) when there is no digit, otherwise << value >>.
DigitValue(c) == (CHOOSE i \in 1..Len(Digits) : Digits[i] = c) - 1
IsDigit(c) == \E i \in 1..Len(Digits) : Digits[i] = c

RECURSIVE digitsValue(_, _)
digitsValue(s, acc) ==
    IF s = <<>> \/ ~IsDigit(Head(s)) THEN acc
    ELSE digitsValue(Tail(s), acc * 10 + DigitValue(Head(s)))

parseInt(str) ==
    LET s == trimStart(str)
        signed == s # <<>> /\ Head(s) \in {"-", "+"}
        body == IF signed THEN Tail(s) ELSE s
    IN  IF body = <<>> \/ ~IsDigit(Head(body)) THEN <<>>
        ELSE IF signed /\ Head(s) = "-" THEN << 0 - digitsValue(body, 0) >>
        ELSE << digitsValue(body, 0) >>

\* An event object: a field is <<>> when absent and << value >> when set.
NoEvent == [data |-> <<>>, event |-> <<>>, id |-> <<>>, retry |-> <<>>]

\* As dataContent, but all leading whitespace goes.
dataContent_trimmed(content) == trimStart(content)

\* content.startsWith(" ") ? content.slice(1) : content
dataContent(content) ==
    IF startsWith(content, << " " >>) THEN slice(content, 1) ELSE content

\* The loop of parseSSEEvent over the lines of one block.
RECURSIVE parseLines(_, _, _)
parseLines(lines, result, dataLines) ==
    IF lines = <<>> THEN [result |-> result, dataLines |-> dataLines]
    ELSE LET line == Head(lines)
             rest == Tail(lines)
         IN  IF startsWith(line, DataPrefix)
             THEN parseLines(rest, result,
                             Append(dataLines, dataContent(slice(line, 5))))
             ELSE IF startsWith(line, EventPrefix)
             THEN parseLines(rest, [result EXCEPT !.event = << trim(slice(line, 6)) >>],
                             dataLines)
             ELSE IF startsWith(line, IdPrefix)
             THEN parseLines(rest, [result EXCEPT !.id = << trim(slice(line, 3)) >>],
                             dataLines)
             ELSE IF startsWith(line, RetryPrefix)
             THEN LET r == parseInt(trim(slice(line, 6))) IN
                  parseLines(rest, IF r # <<>> THEN [result EXCEPT !.retry = r]
                                   ELSE result, dataLines)
             ELSE parseLines(rest, result, dataLines)

\* parseSSEEvent(eventBlock): the event object, or NoEvent for null.
parseSSEEvent(eventBlock) ==
    LET p == parseLines(split(eventBlock, << NL >>), NoEvent, <<>>) IN
    IF p.dataLines # <<>>
    THEN [p.result EXCEPT !.data = << join(p.dataLines, << NL >>) >>]
    ELSE p.result

\* As emitBlocks, but a block that parsed to null is handed on as well.
RECURSIVE emitBlocks_emitsNull(_, _)
emitBlocks_emitsNull(parts, out) ==
    IF parts = <<>> THEN out
    ELSE IF trim(Head(parts)) = <<>> THEN emitBlocks_emitsNull(Tail(parts), out)
    ELSE emitBlocks_emitsNull(Tail(parts), Append(out, parseSSEEvent(Head(parts))))

\* The emit loop of the parser returned by createSSEParser.
RECURSIVE emitBlocks(_, _)
emitBlocks(parts, out) ==
    IF parts = <<>> THEN out
    ELSE LET eventBlock == Head(parts)
             parsed == parseSSEEvent(eventBlock)
         IN  IF trim(eventBlock) = <<>> THEN emitBlocks(Tail(parts), out)
             ELSE IF parsed # NoEvent THEN emitBlocks(Tail(parts), Append(out, parsed))
             ELSE emitBlocks(Tail(parts), out)

\* As createSSEParser, but the trailing fragment is emitted like a frame.
createSSEParser_emitsFragment(buf, chunk) ==
    LET parts == split(buf \o chunk, Separator) IN
    [buffer |-> parts[Len(parts)],
     events |-> emitBlocks(parts, <<>>)]

\* As createSSEParser, but the trailing fragment is not kept.
createSSEParser_dropsFragment(buf, chunk) ==
    LET parts == split(buf \o chunk, Separator) IN
    [buffer |-> <<>>,
     events |-> emitBlocks(SubSeq(parts, 1, Len(parts) - 1), <<>>)]

\* As createSSEParser, but the consumed frames stay in the buffer.
createSSEParser_keepsConsumed(buf, chunk) ==
    LET parts == split(buf \o chunk, Separator) IN
    [buffer |-> buf \o chunk,
     events |-> emitBlocks(SubSeq(parts, 1, Len(parts) - 1), <<>>)]

\* One call of the parser returned by createSSEParser, on the buffer buf:
\* the new buffer and the events handed to onMessage.
createSSEParser(buf, chunk) ==
    LET parts == split(buf \o chunk, Separator) IN
    [buffer |-> parts[Len(parts)],
     events |-> emitBlocks(SubSeq(parts, 1, Len(parts) - 1), <<>>)]

\* ---------------------------------------------------- SSE texts and chunks
MaxPieces == 4      \* pieces an input text is put together from

Pieces == { << "d", "a", "t", "a", ":", " ", "x" >>,
            << "d", "a", "t", "a", ":", "y" >>,
            << "i", "d", ":", "1" >>,
            << ":", "c" >>,
            << NL >>,
            << NL, NL >>,
            << " " >> }

RECURSIVE flatten(_)
flatten(ps) == IF ps = <<>> THEN <<>> ELSE Head(ps) \o flatten(Tail(ps))

Texts == { flatten(ps) : ps \in UNION { [1..n -> Pieces] : n \in 0..MaxPieces } }

SSEInit ==
    /\ sseText \in Texts
    /\ ssePos = 0
    /\ buffer = <<>>
    /\ emitted = <<>>
    /\ splitMidFrame = FALSE
    /\ extracted = <<>>
    /\ SessionInit
    /\ ParseIdle

\* The next n characters of the text arrive as one chunk and are fed.
feed(n) ==
    /\ ssePos + n <= Len(sseText)
    /\ LET r == createSSEParser(buffer, SubSeq(sseText, ssePos + 1, ssePos + n)) IN
       /\ buffer' = r.buffer
       /\ emitted' = emitted \o r.events
       /\ splitMidFrame' = (\/ splitMidFrame
                            \/ (ssePos + n < Len(sseText) /\ r.buffer # <<>>))
    /\ ssePos' = ssePos + n
    /\ UNCHANGED << sseText, extracted >>

SSENext == \E n \in 1..(Len(sseText) - ssePos) : feed(n) /\ UNCHANGED << sessionVars, parseVars >>

SSESpec == SSEInit /\ [][SSENext]_vars

\* ------------------------------------------------------ single event blocks
MaxLines == 3       \* lines an event block is put together from

Lines == { << "d", "a", "t", "a", ":", " ", "x" >>,
           << "d", "a", "t", "a", ":", "y" >>,
           << "d", "a", "t", "a", ":", " ", " ", "x" >>,
           << "d", "a", "t", "a", ":" >>,
           << "e", "v", "e", "n", "t", ":", " ", "e", " " >>,
           << "i", "d", ":", "1" >>,
           << "r", "e", "t", "r", "y", ":", " ", "1", "2" >>,
           << "r", "e", "t", "r", "y", ":", "-", "1" >>,
           << "r", "e", "t", "r", "y", ":", "x" >>,
           << ":", "c" >>,
           << "x" >>,
           << " " >>,
           << >> }

\* A block that split hands to the emit loop: followed by the separator it is
\* cut off whole.
IsFrame(b) == split(b \o Separator, Separator) = << b, <<>> >>

Blocks ==
    { b \in { join(ls, << NL >>) :
                ls \in UNION { [1..n -> Lines] : n \in 1..MaxLines } } :
        IsFrame(b) }

ParseInit ==
    /\ block \in Blocks
    /\ blockParsed = <<>>
    /\ blockEmitted = <<>>
    /\ SessionInit
    /\ SSEIdle

\* The emit loop of the parser runs on the block.
parseBlock ==
    /\ blockParsed = <<>>
    /\ blockParsed' = << parseSSEEvent(block) >>
    /\ blockEmitted' = emitBlocks(<< block >>, <<>>)
    /\ UNCHANGED block

ParseNext == parseBlock /\ UNCHANGED << sessionVars, sseVars >>

ParseSpec == ParseInit /\ [][ParseNext]_vars

\* The events of a fresh parser fed the whole text in one call.
OneShot(text) == createSSEParser(<<>>, text).events

\* ------------------------------------------------------ the stateless parser
MaxExtracts == 2    \* calls of parseSSEChunk on one text

\* .filter(Boolean) on an array of strings: the empty strings go.
RECURSIVE filterBoolean(_)
filterBoolean(parts) ==
    IF parts = <<>> THEN <<>>
    ELSE IF Head(parts) = <<>> THEN filterBoolean(Tail(parts))
    ELSE << Head(parts) >> \o filterBoolean(Tail(parts))

\* As hasData, but an empty data string counts.
hasData_anyData(ev) == ev.data # <<>>

\* parsed?.data as a condition: the event is not null and its data is a
\* non-empty string.
hasData(ev) == ev.data # <<>> /\ ev.data[1] # <<>>

\* The loop of parseSSEChunk: the data strings passed to onMessage.
RECURSIVE messagesOf(_, _)
messagesOf(events, out) ==
    IF events = <<>> THEN out
    ELSE LET ev == parseSSEEvent(Head(events)) IN
         IF hasData(ev) THEN messagesOf(Tail(events), Append(out, ev.data[1]))
         ELSE messagesOf(Tail(events), out)

\* The loop of a parseSSEChunk that looks at the start of a block only: a
\* block counts when it starts with "data: ", and its trimmed rest is passed.
RECURSIVE blockPrefixMessages(_, _)
blockPrefixMessages(events, out) ==
    IF events = <<>> THEN out
    ELSE LET b == Head(events)
             content == trim(slice(b, 6))
         IN  IF startsWith(b, DataPrefix \o << " " >>) /\ content # <<>>
             THEN blockPrefixMessages(Tail(events), Append(out, content))
             ELSE blockPrefixMessages(Tail(events), out)

\* As parseSSEChunk, but only a block that starts with "data: " counts.
parseSSEChunk_blockPrefix(text) ==
    blockPrefixMessages(filterBoolean(split(text, Separator)), <<>>)

\* parseSSEChunk(sseText, onMessage): the strings passed to onMessage.
parseSSEChunk(text) == messagesOf(filterBoolean(split(text, Separator)), <<>>)

ExtractPieces == { << "d", "a", "t", "a", ":", " ", "x" >>,
                   << "d", "a", "t", "a", ":" >>,
                   << "i", "d", ":", "1" >>,
                   << NL >>,
                   << NL, NL >> }

ExtractTexts ==
    { flatten(ps) : ps \in UNION { [1..n -> ExtractPieces] : n \in 0..MaxPieces } }

ExtractInit ==
    /\ sseText \in ExtractTexts
    /\ ssePos = 0
    /\ buffer = <<>>
    /\ emitted = <<>>
    /\ splitMidFrame = FALSE
    /\ extracted = <<>>
    /\ SessionInit
    /\ ParseIdle

\* The caller hands the whole text to parseSSEChunk.
extract ==
    /\ Len(extracted) < MaxExtracts
    /\ extracted' = Append(extracted, parseSSEChunk(sseText))
    /\ UNCHANGED << sseText, ssePos, buffer, emitted, splitMidFrame >>

ExtractNext ==
    \/ \E n \in 1..(Len(sseText) - ssePos) :
          feed(n) /\ UNCHANGED << sessionVars, parseVars >>
    \/ extract /\ UNCHANGED << sessionVars, parseVars >>

ExtractSpec == ExtractInit /\ [][ExtractNext]_vars

\* ------------------------------------------------------------- properties
\* Texts passed to onChunk so far, in call order.
RECURSIVE textsOf(_)
textsOf(lg) ==
    IF lg = <<>> THEN <<>>
    ELSE IF Head(lg).cb = "onChunk" THEN << Head(lg).text >> \o textsOf(Tail(lg))
    ELSE textsOf(Tail(lg))

\* The texts one decoder produces for a sequence of chunks, chunk by chunk.
RECURSIVE decodeEach(_, _)
decodeEach(pending, chunks) ==
    IF chunks = <<>> THEN <<>>
    ELSE LET d == decode(pending, Head(chunks), <<>>) IN
         << d.text >> \o decodeEach(d.pending, Tail(chunks))

\* Chunks whose continuation in readStreamChunk has run.
Consumed ==
    IF readState = "chunk" THEN SubSeq(delivered, 1, Len(delivered) - 1)
    ELSE delivered

Terminals == Count("onComplete") + Count("onError")

\* C1: whatever the cuts, the events emitted after feeding a text chunk by
\* chunk are, in order, the events a fresh parser emits when it is fed the
\* same text in one call.
C1_ChunkingEquivalence ==
    emitted = OneShot(SubSeq(sseText, 1, ssePos))

\* C1 witness: a text fed to its end in chunks, one of which ended inside a
\* frame, with two events emitted.
C1_Witness ==
    /\ ssePos = Len(sseText)
    /\ splitMidFrame
    /\ Len(emitted) >= 2

\* C2: onComplete and onError are never both invoked for one stream() call,
\* whenever the cancel handle is invoked.
C2_NeverBothTerminals ==
    ~(Count("onComplete") > 0 /\ Count("onError") > 0)

\* C3: once the cancellation token has fired, no onChunk and no onComplete
\* is invoked any more.
C3_NoCallbackAfterCancel ==
    [][controllerAborted =>
          \A i \in (Len(log) + 1)..Len(log') : log'[i].cb = "onError"]_vars

\* C4: a second invocation of the cancel handle is a no-op: no further
\* onError and no further release of the reader.
C4_SecondCancelNoOp ==
    [][(cancels >= 1 /\ cancels' = cancels + 1) =>
          (log' = log /\ releases' = releases)]_vars

\* C5: with retry = 2, the first two issue failures are suppressed: onError
\* is not invoked for a failed issuance while fewer than three have failed.
C5_RetrySuppressesFailures ==
    (retry = 2 /\ failures <= 2) =>
        \A i \in 1..Len(log) : log[i].err # "failed"

\* C6: with retry = N, onError reports a failed issuance only after the
\* request has been issued N + 1 times.
C6_IssuedRetryPlusOne ==
    (\E i \in 1..Len(log) : log[i].err = "failed") => issued = retry + 1

\* C7: the texts passed to onChunk are the decoded chunks of the body, one
\* call per chunk, in arrival order, nothing skipped, repeated or reordered.
C7_ChunksInArrivalOrder ==
    textsOf(log) = decodeEach(FALSE, Consumed)

\* C7 witness: two different chunks arrived and both were passed on.
C7_Witness ==
    /\ Len(delivered) = 2
    /\ delivered[1] # delivered[2]
    /\ Count("onChunk") = 2

\* C8: onComplete is invoked at most once and no onChunk follows it; when
\* the body has ended and the loop has seen it, onComplete has been invoked
\* exactly once, after an onChunk for every chunk.
C8_CompleteOnceAfterChunks ==
    /\ Count("onComplete") <= 1
    /\ \A i, j \in 1..Len(log) :
          (i < j /\ log[i].cb = "onComplete") => log[j].cb # "onChunk"
    /\ (ended /\ readState # "done") =>
          /\ Count("onComplete") = 1
          /\ Count("onChunk") = Len(delivered)

\* C8 witness: an uncancelled stream of two chunks ended and onComplete was
\* the last callback.
C8_Witness ==
    /\ ended
    /\ pc = "done"
    /\ ~controllerAborted
    /\ Count("onChunk") = 2
    /\ log[Len(log)].cb = "onComplete"

C12_SilentAfterSignal ==
    [][(signalAborted /\ cancels' = 0) => log' = log]_vars

\* C13: one invocation of the cancel handle on a reading session makes the
\* first and only onError; after it the read loop adds no onError (other
\* than for a failure of the body itself).
C13_OneErrorPerCancel ==
    [][/\ (pc = "reading" /\ cancels = 0 /\ cancels' = 1) =>
             Cardinality({i \in 1..Len(log') : log'[i].cb = "onError"}) = 1
       /\ (pc = "reading" /\ cancels = 1 /\ cancels' = 1) =>
             \A i \in (Len(log) + 1)..Len(log') :
                 log'[i].cb = "onError" => log'[i].err = "rejected_error"]_vars

\* C14: when options.signal was already aborted at the call, every request
\* was issued with the internal token already fired, no reader was ever
\* taken and no chunk was ever read or passed on.
C14_PreAbortedNeverReads ==
    abortedAtCall =>
        /\ \A i \in 1..Len(requests) : requests[i].tokenFired
        /\ controllerAborted
        /\ reader = "null"
        /\ delivered = <<>>
        /\ Count("onChunk") = 0

\* C14 witness: a call with an aborted signal has issued its request and
\* ended without any callback.
C14_Witness ==
    /\ abortedAtCall
    /\ pc = "done"
    /\ Len(requests) = 1
    /\ log = <<>>

\* onError calls that report a failure of the body stream.
ReadFailures == {i \in 1..Len(log) : log[i].err = "rejected_error"}

C15_AfterReadFailure ==
    /\ Cardinality(ReadFailures) <= 1
    /\ \A i \in ReadFailures, j \in 1..Len(log) : i < j => log[j].cb = "onError"
    /\ Count("onChunk") <= Len(delivered)
    /\ issued <= 1

\* C15: a read that fails for a reason other than cancellation is reported
\* by one onError as soon as the loop sees it and ends the session; no
\* onChunk or onComplete follows, no chunk is passed on twice and the
\* request is not issued again.
C15_ReadFailureReportedOnce ==
    /\ []C15_AfterReadFailure
    /\ [][(readState = "rejected_error" /\ readState' # "rejected_error") =>
             /\ log' = Append(log, ErrorCall("rejected_error"))
             /\ pc' = "done"
             /\ issued' = issued]_vars

\* C15 witness: with retry > 0, a chunk was passed on, the next read failed,
\* and the session ended after one onError and a single issuance.
C15_Witness ==
    /\ retry > 0
    /\ pc = "done"
    /\ cancels = 0
    /\ Count("onChunk") >= 1
    /\ Cardinality(ReadFailures) = 1
    /\ issued = 1

\* None of response.data, response.body and the response offers getReader.
NoReader(r) == r.data # "stream" /\ r.body # "stream" /\ r.self # "stream"

\* C16: once the stream function has seen a response without any readable
\* body, the session is over: the failure went to onError exactly once (any
\* other onError is a notice of the cancel handle), no reader was taken, no
\* chunk read, neither onChunk nor onComplete invoked, and the request was
\* issued once whatever options.retry is.
C16_UnsupportedIsFatal ==
    (issueResult = "response" /\ NoReader(response) /\ pc # "await_instance") =>
        /\ pc = "done"
        /\ Cardinality({i \in 1..Len(log) : log[i].err = "unsupported"}) = 1
        /\ Count("onError") = 1 + cancels
        /\ reader = "null"
        /\ delivered = <<>>
        /\ Count("onChunk") = 0
        /\ Count("onComplete") = 0
        /\ issued = 1

\* C16 witness: with retry > 0, a response whose data is a buffered value
\* ended the session with one onError.
C16_Witness ==
    /\ retry > 0
    /\ issueResult = "response"
    /\ NoReader(response)
    /\ response.data = "plain"
    /\ pc = "done"
    /\ log = << ErrorCall("unsupported") >>

\* A line that sets one of the four fields: a data:, event: or id: line, or
\* a retry: line whose value starts with an integer.
SetsField(line) ==
    \/ startsWith(line, DataPrefix)
    \/ startsWith(line, EventPrefix)
    \/ startsWith(line, IdPrefix)
    \/ /\ startsWith(line, RetryPrefix)
       /\ parseInt(trim(slice(line, 6))) # <<>>

FrameSetsField(frame) ==
    LET lines == split(frame, << NL >>) IN
    \E i \in 1..Len(lines) : SetsField(lines[i])

\* The frames of a text that are terminated by a separator.
CompleteFrames(text) ==
    LET parts == split(text, Separator) IN SubSeq(parts, 1, Len(parts) - 1)

\* The events of the frames that set a field, in frame order.
RECURSIVE eventsOf(_)
eventsOf(frames) ==
    IF frames = <<>> THEN <<>>
    ELSE IF FrameSetsField(Head(frames))
         THEN << parseSSEEvent(Head(frames)) >> \o eventsOf(Tail(frames))
         ELSE eventsOf(Tail(frames))

\* "data: he" then "llo\n\n": nothing after the first call, { data: "hello" }
\* after the second.
HelloExample ==
    LET first == createSSEParser(<<>>, << "d", "a", "t", "a", ":", " ", "h", "e" >>)
        second == createSSEParser(first.buffer, << "l", "l", "o", NL, NL >>)
    IN  /\ first.events = <<>>
        /\ second.events =
              << [NoEvent EXCEPT !.data = << << "h", "e", "l", "l", "o" >> >>] >>
        /\ second.buffer = <<>>

\* C17: after any feed calls, the events emitted are exactly one event per
\* separator-terminated frame of the text fed so far that sets a field, in
\* frame order; the fragment after the last separator has emitted nothing.
C17_OneEventPerTerminatedFrame ==
    /\ emitted = eventsOf(CompleteFrames(SubSeq(sseText, 1, ssePos)))
    /\ HelloExample

\* C17 witness: "data: x\n\n" arrived in chunks that cut the frame and was
\* emitted once, as { data: "x" }.
C17_Witness ==
    /\ sseText = << "d", "a", "t", "a", ":", " ", "x", NL, NL >>
    /\ ssePos = Len(sseText)
    /\ splitMidFrame
    /\ emitted = << [NoEvent EXCEPT !.data = << << "x" >> >>] >>

\* C18: the emit loop hands on an event for a block if and only if a line of
\* the block sets one of the four fields, and then it is the one parsed event.
C18_EmitIffFieldSet ==
    blockParsed # <<>> =>
        /\ (blockEmitted # <<>>) <=> FrameSetsField(block)
        /\ blockEmitted # <<>> => blockEmitted = blockParsed

\* C18 witness: a block of a comment line and an unparseable retry: line was
\* parsed and nothing was handed on.
C18_Witness ==
    /\ blockParsed # <<>>
    /\ block = << ":", "c", NL, "r", "e", "t", "r", "y", ":", "x" >>
    /\ blockEmitted = <<>>

\* The contents of the data: lines, one leading space taken off each.
RECURSIVE dataContents(_)
dataContents(lines) ==
    IF lines = <<>> THEN <<>>
    ELSE IF startsWith(Head(lines), DataPrefix)
         THEN LET c == slice(Head(lines), 5) IN
              << IF c # <<>> /\ c[1] = " " THEN Tail(c) ELSE c >>
                  \o dataContents(Tail(lines))
         ELSE dataContents(Tail(lines))

RECURSIVE newlineJoined(_)
newlineJoined(contents) ==
    IF Len(contents) = 1 THEN contents[1]
    ELSE contents[1] \o << NL >> \o newlineJoined(Tail(contents))

\* C19: the data field of the parsed event is the contents of the block's
\* data: lines, at most one leading space removed from each, joined with a
\* newline in line order; it is absent exactly when there is no data: line.
C19_DataJoinsDataLines ==
    blockParsed # <<>> =>
        LET contents == dataContents(split(block, << NL >>)) IN
        blockParsed[1].data = IF contents = <<>> THEN <<>>
                         ELSE << newlineJoined(contents) >>

\* C19 witness: "data:  x" and "data:y" gave the data " x\ny".
C19_Witness ==
    /\ blockParsed # <<>>
    /\ blockParsed[1].data = << << " ", "x", NL, "y" >> >>

\* C20: a retry field of a parsed event is a non-negative integer.
C20_RetryNonNegative ==
    (blockParsed # <<>> /\ blockParsed[1].retry # <<>>) => blockParsed[1].retry[1] >= 0

\* C22: when a session that was given a not yet aborted external signal has
\* reached a terminal outcome, whichever it is, its abort listener is no
\* longer registered on that signal.
C22_ListenerRemovedAtEnd ==
    (signalGiven /\ ~abortedAtCall /\ pc = "done") => ~externalSignalHandler

\* C23: when a session that acquired a reader has reached a terminal outcome,
\* the reader is not held any more and was released exactly once, however
\* often a release was asked for.
C23_ReaderReleasedOnce ==
    (pc = "done" /\ reader # "null") => (reader = "released" /\ releases = 1)

\* C25: onChunk is never invoked with an empty string.
C25_NoEmptyChunk ==
    \A i \in 1..Len(log) : log[i].cb = "onChunk" => log[i].text # <<>>

\* C26: whatever the caller passes, every request is issued with responseType
\* "stream", timeout 0 and the internal controller's signal, never the
\* caller's; while the session runs, a fired external signal has fired the
\* internal token.
C26_ForcedRequestConfig ==
    /\ \A i \in 1..Len(requests) :
          /\ requests[i].responseType = "stream"
          /\ requests[i].timeout = 0
          /\ requests[i].signal = "controller.signal"
    /\ (pc \in {"await_instance", "reading"} /\ signalAborted) => controllerAborted

\* C26 witness: the caller passed a timeout, a response type, an adapter and
\* a signal of its own, and the request was issued.
C26_Witness ==
    /\ pc # "idle"
    /\ DOMAIN options = {"url", "timeout", "responseType", "adapter", "signal"}
    /\ options.timeout = 5000
    /\ options.responseType = "json"
    /\ Len(requests) = 1

\* onError calls that report what onChunk threw.
ThrowReports == {i \in 1..Len(log) : log[i].err \in {"thrown_error", "thrown_abort"}}

\* C27: once onChunk has thrown, the read loop has stopped with no read
\* outstanding, the listener on the external signal is removed, onError has
\* been invoked exactly once with the read failure, after the last onChunk,
\* and onComplete has not been invoked.
C27_ThrowingOnChunkReported ==
    thrown # "none" =>
        /\ pc = "done"
        /\ readState = "none"
        /\ ~externalSignalHandler
        /\ Cardinality(ThrowReports) = 1
        /\ \A i \in ThrowReports, j \in 1..Len(log) : i < j => log[j].cb = "onError"
        /\ Count("onComplete") = 0

\* The text fed to the parser so far.
Fed == SubSeq(sseText, 1, ssePos)

\* The text holds a blank-line separator.
hasSeparator(s) == \E i \in 1..(Len(s) - 1) : s[i] = NL /\ s[i + 1] = NL

\* What follows the last separator of a text read from left to right (the
\* whole text when it has none).
RECURSIVE afterLastSeparator(_, _)
afterLastSeparator(s, fragment) ==
    IF s = <<>> THEN fragment
    ELSE IF Len(s) >= 2 /\ s[1] = NL /\ s[2] = NL
         THEN afterLastSeparator(SubSeq(s, 3, Len(s)), <<>>)
         ELSE afterLastSeparator(Tail(s), Append(fragment, s[1]))

\* C24: after every feed call the buffer holds no separator and is the part
\* of the text fed so far that follows its last separator; a feed call changes
\* the buffer by appending the chunk and cutting off a leading portion that
\* is empty or ends with a separator.
C24_BufferIsTrailingFragment ==
    /\ [](/\ ~hasSeparator(buffer)
          /\ buffer = afterLastSeparator(Fed, <<>>))
    /\ [][ssePos' > ssePos =>
             LET joined == buffer \o SubSeq(sseText, ssePos + 1, ssePos') IN
             \E k \in 0..Len(joined) :
                /\ buffer' = SubSeq(joined, k + 1, Len(joined))
                /\ k = 0 \/ (k >= 2 /\ SubSeq(joined, k - 1, k) = Separator)]_vars

\* C24 witness: after a chunk that ended inside a frame, a later feed call
\* emitted an event and left a non-empty fragment in the buffer.
C24_Witness ==
    /\ splitMidFrame
    /\ emitted # <<>>
    /\ buffer # <<>>
    /\ buffer # Fed

\* The data of one frame as the text states it: the contents of its data:
\* lines joined with a newline, << >> when it has no data: line.
frameData(frame) ==
    LET contents == dataContents(split(frame, << NL >>)) IN
    IF contents = <<>> THEN <<>> ELSE << newlineJoined(contents) >>

\* One string per frame whose data is not empty, in frame order.
RECURSIVE dataCalls(_)
dataCalls(frames) ==
    IF frames = <<>> THEN <<>>
    ELSE LET d == frameData(Head(frames)) IN
         IF d # <<>> /\ d[1] # <<>> THEN << d[1] >> \o dataCalls(Tail(frames))
         ELSE dataCalls(Tail(frames))

\* "data: hello\n\ndata: world\n\n" yields "hello" then "world".
HelloWorldExample ==
    parseSSEChunk(<< "d", "a", "t", "a", ":", " ", "h", "e", "l", "l", "o", NL, NL,
                     "d", "a", "t", "a", ":", " ", "w", "o", "r", "l", "d", NL, NL >>)
        = << << "h", "e", "l", "l", "o" >>, << "w", "o", "r", "l", "d" >> >>

\* C21: every call of parseSSEChunk on a text passes on, in frame order, one
\* string per frame whose joined data is not empty, namely the contents of the
\* frame's data: lines joined with a newline, and nothing for the other
\* frames; a later call on the same text passes on the same strings.
C21_OneCallPerDataFrame ==
    /\ \A i \in 1..Len(extracted) :
          extracted[i] = dataCalls(split(sseText, Separator))
    /\ HelloWorldExample

\* C21 witness: "data: x\n\ndata:\n\n" was handed over twice and each call
\* passed on "x" alone.
C21_Witness ==
    /\ sseText = << "d", "a", "t", "a", ":", " ", "x", NL, NL,
                    "d", "a", "t", "a", ":", NL, NL >>
    /\ extracted = << << << "x" >> >>, << << "x" >> >> >>

\* The non-empty data values of a sequence of events, in order.
RECURSIVE nonEmptyData(_)
nonEmptyData(events) ==
    IF events = <<>> THEN <<>>
    ELSE LET d == Head(events).data IN
         IF d # <<>> /\ d[1] # <<>> THEN << d[1] >> \o nonEmptyData(Tail(events))
         ELSE nonEmptyData(Tail(events))

endsWith(s, suffix) ==
    /\ Len(s) >= Len(suffix)
    /\ SubSeq(s, Len(s) - Len(suffix) + 1, Len(s)) = suffix

\* C28: when a text that ends with the separator has been fed to the parser
\* to its end, in whatever chunks, the non-empty data values of the emitted
\* events are the strings a parseSSEChunk call passes on for the same text.
C28_ParserDataEqualsExtract ==
    (ssePos = Len(sseText) /\ endsWith(sseText, Separator)) =>
        \A i \in 1..Len(extracted) : extracted[i] = nonEmptyData(emitted)

\* C28 witness: a text that ends with the separator was fed in chunks that
\* cut a frame and handed to parseSSEChunk; the parser emitted an event
\* without data or with empty data besides one with data.
C28_Witness ==
    /\ ssePos = Len(sseText)
    /\ endsWith(sseText, Separator)
    /\ splitMidFrame
    /\ extracted # <<>>
    /\ extracted[1] # <<>>
    /\ Len(emitted) > Len(extracted[1])

====
